---- MODULE Spec2Model ----
(***************************************************************************)
(* ReGen Architect: the request orchestrator (retryOperation and the four  *)
(* API functions of services/geminiService.ts) and the application         *)
(* controller (App.tsx).                                                   *)
(*                                                                         *)
(* SpecRetry runs one call of an API function at a time through            *)
(* retryOperation.  Spec runs the controller, in which every API call is   *)
(* an asynchronous operation that settles (resolves or rejects) later;     *)
(* SpecPlanView adds the plan view that the controller renders in          *)
(* COMPLETE.  SpecRetryFair and SpecFair are SpecRetry and Spec under the  *)
(* assumption that what is awaited settles.                                *)
(***************************************************************************)
EXTENDS Integers, Sequences, FiniteSets, Bags, TLC

(***************************************************************************)
(* Bounds of the model.                                                    *)
(***************************************************************************)
\* retryOperation is called with maxRetries in 1..MaxRetriesArg
MaxRetriesArg == 4
\* at most MaxOutstanding asynchronous operations of the controller (file
\* reads, demo fetches, analyses, generations, lookups) are outstanding at once
MaxOutstanding == 2
\* the plans have MaxPhases phases
MaxPhases == 2

(***************************************************************************)
(* Program constants.                                                      *)
(***************************************************************************)
\* default value of retryOperation's parameter maxRetries
DefaultMaxRetries == 3
\* default value of retryOperation's parameter initialDelay (ms)
DefaultInitialDelay == 2000
\* HTTP status: rate limited
TooManyRequests == 429
\* HTTP status: service unavailable
ServiceUnavailable == 503
\* error.status of an Error object that carries no status (undefined)
NoStatus == 0
\* AnalysisView offers a restoration type when its score is above this
ViableAbove == 30

(***************************************************************************)
(* The request orchestrator.                                               *)
(***************************************************************************)
\* the state of one call of retryOperation
VARIABLES
  rpc,          \* where retryOperation is: "idle", "loop", "delay", "returned", "thrown"
  kind,         \* the API function that called retryOperation
  maxRetries,   \* retryOperation's parameter
  initialDelay, \* retryOperation's parameter
  i,            \* the loop index of retryOperation
  lastError,    \* retryOperation's local lastError
  outcome,      \* the value returned / the error thrown by retryOperation
  nextExt,      \* what the external service will answer to the next invocation
  extLog,       \* history: the external answers to the invocations made so far
  opLog,        \* history: the results of the invocations of operation() so far
  delays        \* history: the delays waited so far (ms)

rvars == <<rpc, kind, maxRetries, initialDelay, i, lastError, outcome,
           nextExt, extLog, opLog, delays>>

\* the state of the application controller (App.tsx)
VARIABLES
  appState,     \* useState<AppState>
  project,      \* useState<ProjectState>
  isLocating,   \* useState(false): a geolocation request is outstanding
  loadingDemo,  \* useState(false)
  notice,       \* the alert() that the last step showed, if it showed one
  logged,       \* the error that the last step wrote with console.error, if
                \* it wrote one
  loads,        \* bag: the file reads and demo fetches whose onloadend has not run
  analyses,     \* bag: the calls of startAnalysis that await analyzeSiteImage
  gens,         \* bag: the calls of handleTypeSelection that await Promise.all,
                \* with the state of their two promises and, as history,
                \* plan and restoredImage at the time of the call
  phaseResults, \* PlanView: useState<Record<number, LocalSearchResult>>({})
  loadingPhases,\* PlanView: useState<Record<number, boolean>>({})
  lookups       \* bag: the calls of handleSearchForPhase that await
                \* findLocalServices

\* the state of the PlanView component
pvars == <<phaseResults, loadingPhases, lookups>>
avars == <<appState, project, isLocating, loadingDemo, notice, logged,
           loads, analyses, gens, pvars>>
vars == <<rvars, avars>>

\* the four call kinds
CallKinds == {"analyzeSiteImage", "generateVisionImage", "createExecutionPlan",
              "findLocalServices"}

\* What one invocation meets outside the program: the API key is missing, the
\* service answers with a payload, with no payload, with text that is not JSON,
\* or the call fails with an HTTP status.
ExtOutcomes == {"ok", "empty", "badjson", "nokey", "s429", "s503", "s500"}

\* generateVisionImage reads inline image data and parses no JSON
ExtOutcomesOf(k) ==
  IF k = "generateVisionImage" THEN ExtOutcomes \ {"badjson"} ELSE ExtOutcomes

NoError == [attempt |-> 0, cause |-> "none", status |-> NoStatus,
            wrapped |-> FALSE]
NoValue == [attempt |-> 0, data |-> "none"]

\* the error object an invocation throws: the API error with its status, or an
\* Error without status (missing key, no payload, JSON.parse failure)
ErrorOf(ext, n) ==
  [attempt |-> n,
   cause   |-> ext,
   status  |-> CASE ext = "s429" -> TooManyRequests
                 [] ext = "s503" -> ServiceUnavailable
                 [] ext = "s500" -> 500
                 [] OTHER        -> NoStatus,
   wrapped |-> FALSE]

Fulfilled(v) == [ok |-> TRUE, value |-> v, error |-> NoError]
Rejected(e)  == [ok |-> FALSE, value |-> NoValue, error |-> e]

\* the operation passed by analyzeSiteImage, generateVisionImage and
\* createExecutionPlan: the payload, or the error rethrown by the catch
RethrowingOperation(ext, n) ==
  IF ext = "ok" THEN Fulfilled([attempt |-> n, data |-> "payload"])
  ELSE Rejected(ErrorOf(ext, n))

\* the operation passed by findLocalServices: its catch returns an empty list
SwallowingOperationRethrows(ext, n) == RethrowingOperation(ext, n)
SwallowingOperation(ext, n) ==
  IF ext = "ok" THEN Fulfilled([attempt |-> n, data |-> "payload"])
  ELSE Fulfilled([attempt |-> n, data |-> "no providers"])

\* the n-th invocation of operation() of call kind k
Operation(k, ext, n) ==
  IF k = "findLocalServices" THEN SwallowingOperation(ext, n)
  ELSE RethrowingOperation(ext, n)

RECURSIVE Pow2(_)
Pow2(n) == IF n <= 0 THEN 1 ELSE 2 * Pow2(n - 1)

\* const shouldRetry = error.status === 429 || error.status === 503
ShouldRetryAlways(error) == TRUE
ShouldRetry(error) ==
  error.status = TooManyRequests \/ error.status = ServiceUnavailable

\* i < maxRetries - 1
MoreAttemptsOneMore(idx, max) == idx < max
MoreAttempts(idx, max) == idx < max - 1

\* const delay = initialDelay * Math.pow(2, i)
RetryDelayConstant(base, idx) == base
RetryDelay(base, idx) == base * Pow2(idx)

\* throw error
PropagateFirst(error, log) == log[1].error
Propagate(error, log) == error

RetryDone == rpc \in {"returned", "thrown"}

\* the answers of the external service to the invocations of one call
ExtSeqs(k, max) == [1 .. max -> ExtOutcomesOf(k)]

RECURSIVE RetryFrom(_, _, _, _, _)
\* retryOperation from loop index idx on, as a function of the answers exts of
\* the external service: the value it returns or the error it throws
RetryFrom(k, exts, max, idx, last) ==
  IF idx < max
  THEN LET res == Operation(k, exts[idx + 1], idx + 1)
       IN  IF res.ok THEN res
           ELSE IF ShouldRetry(res.error) /\ MoreAttempts(idx, max)
                THEN RetryFrom(k, exts, max, idx + 1, res.error)
                ELSE Rejected(res.error)
  ELSE Rejected(last)

\* an API function: retryOperation(operation) with the default parameters
ApiCall(k, exts) == RetryFrom(k, exts, DefaultMaxRetries, 0, NoError)

\* What the handler that awaits a call receives of its result: the data of
\* the value it resolved with, or the error it rejected with (the number of
\* the attempt is no part of either).
Settlement(result) ==
  [ok    |-> result.ok,
   data  |-> result.value.data,
   error |-> [cause |-> result.error.cause, status |-> result.error.status]]

\* The answers that the calls of the controller meet: a payload, an error
\* that is not retried and an error that is retried.
AnswersMet == {"ok", "empty", "s503"}
AnswerSeqs(k) == [1 .. DefaultMaxRetries -> ExtOutcomesOf(k) \cap AnswersMet]

\* the ways in which a call of each API function can settle
AnalyzeSiteImageSettlements ==
  {Settlement(ApiCall("analyzeSiteImage", exts)) :
     exts \in AnswerSeqs("analyzeSiteImage")}
GenerateVisionImageSettlements ==
  {Settlement(ApiCall("generateVisionImage", exts)) :
     exts \in AnswerSeqs("generateVisionImage")}
CreateExecutionPlanSettlements ==
  {Settlement(ApiCall("createExecutionPlan", exts)) :
     exts \in AnswerSeqs("createExecutionPlan")}
FindLocalServicesSettlements ==
  {Settlement(ApiCall("findLocalServices", exts)) :
     exts \in AnswerSeqs("findLocalServices")}

\* console.error was not called
NothingLogged == Settlement(Fulfilled(NoValue)).error

RetryInit ==
  /\ rpc = "idle"
  /\ kind = "analyzeSiteImage"
  /\ maxRetries = DefaultMaxRetries
  /\ initialDelay = DefaultInitialDelay
  /\ i = 0
  /\ lastError = NoError
  /\ outcome = NoValue
  /\ nextExt = "ok"
  /\ extLog = <<>>
  /\ opLog = <<>>
  /\ delays = <<>>

\* an API function calls retryOperation(operation, maxRetries, initialDelay)
CallRetryOperation(k, max, base) ==
  /\ rpc \in {"idle", "returned", "thrown"}
  /\ rpc' = "loop"
  /\ kind' = k
  /\ maxRetries' = max
  /\ initialDelay' = base
  /\ i' = 0
  /\ lastError' = NoError
  /\ outcome' = NoValue
  /\ nextExt' \in ExtOutcomesOf(k)
  /\ extLog' = <<>>
  /\ opLog' = <<>>
  /\ delays' = <<>>
  /\ UNCHANGED avars

\* one pass of the for loop up to the next await of the timer, return or throw
Attempt ==
  /\ rpc = "loop"
  /\ IF i < maxRetries
     THEN LET res == Operation(kind, nextExt, Len(opLog) + 1)
              log == Append(opLog, res)
          IN  /\ extLog' = Append(extLog, nextExt)
              /\ opLog' = log
              /\ nextExt' \in ExtOutcomesOf(kind)
              /\ IF res.ok
                 THEN /\ rpc' = "returned"
                      /\ outcome' = res.value
                      /\ UNCHANGED <<lastError, delays>>
                 ELSE /\ lastError' = res.error
                      /\ IF ShouldRetry(res.error) /\ MoreAttempts(i, maxRetries)
                         THEN /\ rpc' = "delay"
                              /\ delays' = Append(delays, RetryDelay(initialDelay, i))
                              /\ UNCHANGED outcome
                         ELSE /\ rpc' = "thrown"
                              /\ outcome' = Propagate(res.error, log)
                              /\ UNCHANGED delays
     ELSE \* the loop ran out: throw lastError
          /\ rpc' = "thrown"
          /\ outcome' = lastError
          /\ UNCHANGED <<lastError, delays, extLog, opLog, nextExt>>
  /\ UNCHANGED <<kind, maxRetries, initialDelay, i>>
  /\ UNCHANGED avars

\* the timer of the delay fires: continue with i++
TimerFires ==
  /\ rpc = "delay"
  /\ rpc' = "loop"
  /\ i' = i + 1
  /\ UNCHANGED <<kind, maxRetries, initialDelay, lastError, outcome,
                 nextExt, extLog, opLog, delays>>
  /\ UNCHANGED avars

RetryNext ==
  \/ \E k \in CallKinds, max \in 1..MaxRetriesArg,
        base \in {DefaultInitialDelay, DefaultInitialDelay \div 2} :
       CallRetryOperation(k, max, base)
  \/ Attempt
  \/ TimerFires


(***************************************************************************)
(* The application controller (App.tsx).                                   *)
(***************************************************************************)
\* enum AppState
AppStates == {"IDLE", "ANALYZING", "REVIEW_ANALYSIS", "GENERATING_VISION",
              "PLANNING", "COMPLETE"}
\* enum RestorationType
RestorationTypes == {"Pollinator Haven", "Urban Food Forest",
                     "Stormwater Rain Garden", "Native Wildflower Meadow",
                     "Sustainable Community Park"}
\* enum BudgetLevel
BudgetLevels == {"Low Cost (DIY & Seeds)", "Standard (Professional Assist)",
                 "Premium (Full Contractor)"}
BudgetMedium == "Standard (Professional Assist)"

\* null
Null == [null |-> TRUE]

\* the inputs of the model: the files the user picks, the demo image, the
\* position the browser reports, the suitability scores the service returns
\* and the budgets the user chooses
Files == {"fileA"}
DemoImage == "demo"
Positions == {[latitude |-> 48, longitude |-> 2]}
ScoredTypes == {"Pollinator Haven", "Urban Food Forest"}
Scores == {ViableAbove, ViableAbove + 1}
Suitabilities ==
  {[t \in ScoredTypes |-> IF t = "Urban Food Forest" THEN s ELSE ViableAbove + 1] :
     s \in Scores}
BudgetsChosen == {"Low Cost (DIY & Seeds)"}

\* code of a GeolocationPositionError
LocationErrorCodes == {"PERMISSION_DENIED", "POSITION_UNAVAILABLE", "TIMEOUT"}

\* the texts of the alerts
NoNotice == "none"
DemoFailedNotice == "Could not load demo image. Please upload your own."
UnsupportedNotice == "Geolocation is not supported by your browser"
AnalysisFailedNotice == "Failed to analyze image. Please try again."
GenerationFailedNotice == "Generation failed. Please try again."
LocationRequiredNotice == "Location is required to find local help."
LookupFailedNotice == "Failed to find local services. Please try again later."

\* msg of the error callback of getCurrentPosition
LocationErrorMessage(code) ==
  CASE code = "PERMISSION_DENIED" ->
         "Location permission denied. Please allow location access in your browser settings to use local features."
    [] code = "POSITION_UNAVAILABLE" -> "Location information is unavailable."
    [] code = "TIMEOUT" -> "The request to get user location timed out."
    [] OTHER -> "Unable to retrieve location."

\* the state of a promise
Settled == {"fulfilled", "rejected"}

\* the initial ProjectState, which resetApp writes again
InitialProject ==
  [originalImage |-> Null, restoredImage |-> Null, analysis |-> Null,
   selectedType |-> Null, budget |-> BudgetMedium, plan |-> Null,
   location |-> Null]

\* indexes of plan.phases
PhaseIndexes == 0 .. (MaxPhases - 1)

\* a key that a Record does not have
Undefined == [undefined |-> TRUE]

\* PlanView's state when it is mounted: no result, no phase loading (a key
\* that loadingPhases does not have reads as falsy), nothing awaited
NoResults == [index \in PhaseIndexes |-> Undefined]
NotLoading == [index \in PhaseIndexes |-> FALSE]
PlanViewInit ==
  /\ phaseResults = NoResults
  /\ loadingPhases = NotLoading
  /\ lookups = EmptyBag

\* App renders PlanView: appState === COMPLETE, inside the block shown when
\* project.analysis is set, and project.plan is set
PlanViewRendered(state, p) ==
  state = "COMPLETE" /\ p.analysis # Null /\ p.plan # Null

\* PlanView keeps its state while App renders it; when App stops rendering
\* it the component is unmounted, its state is gone and the setters that the
\* calls it awaits would call do nothing
PlanViewFollows ==
  IF PlanViewRendered(appState', project')
  THEN UNCHANGED pvars
  ELSE /\ phaseResults' = NoResults
       /\ loadingPhases' = NotLoading
       /\ lookups' = EmptyBag

AppInit ==
  /\ appState = "IDLE"
  /\ project = InitialProject
  /\ isLocating = FALSE
  /\ loadingDemo = FALSE
  /\ notice = NoNotice
  /\ logged = NothingLogged
  /\ loads = EmptyBag
  /\ analyses = EmptyBag
  /\ gens = EmptyBag
  /\ PlanViewInit

\* Promise.all([imagePromise, planPromise])
PromiseAny(vision, plan) ==
  IF vision = "fulfilled" \/ plan = "fulfilled" THEN "fulfilled"
  ELSE IF vision = "rejected" /\ plan = "rejected" THEN "rejected"
  ELSE "pending"
PromiseAll(vision, plan) ==
  IF vision = "rejected" \/ plan = "rejected" THEN "rejected"
  ELSE IF vision = "fulfilled" /\ plan = "fulfilled" THEN "fulfilled"
  ELSE "pending"

\* AnalysisView: const isViable = item.score > 30
IsViableFrom(score) == score >= ViableAbove
IsViable(score) == score > ViableAbove

\* one more / one less operation in a bag of outstanding operations
Started(ops, o) == ops (+) SetToBag({o})
Finished(ops, o) == ops (-) SetToBag({o})

\* the bound of the model: one more operation may start (the analysis that
\* a finished read starts takes the place of the read)
CanStart ==
  BagCardinality(loads) + BagCardinality(analyses) + BagCardinality(gens)
    + BagCardinality(lookups) < MaxOutstanding

\* handleFileUpload: a file was chosen in the file input of the landing view;
\* the FileReader starts reading it
HandleFileUpload(file) ==
  /\ appState = "IDLE"
  /\ CanStart
  /\ loads' = Started(loads, [src |-> "file", image |-> file])
  /\ notice' = NoNotice
  /\ logged' = NothingLogged
  /\ UNCHANGED <<appState, project, isLocating, loadingDemo, analyses, gens>>
  /\ UNCHANGED pvars
  /\ UNCHANGED rvars

\* handleDemoLoad up to its first await: the button of the landing view
HandleDemoLoad ==
  /\ appState = "IDLE"
  /\ ~loadingDemo
  /\ CanStart
  /\ loadingDemo' = TRUE
  /\ loads' = Started(loads, [src |-> "demo", image |-> DemoImage])
  /\ notice' = NoNotice
  /\ logged' = NothingLogged
  /\ UNCHANGED <<appState, project, isLocating, analyses, gens>>
  /\ UNCHANGED pvars
  /\ UNCHANGED rvars

\* handleDemoLoad: fetch or blob() rejects
DemoFetchFails(l) ==
  /\ BagIn(l, loads)
  /\ l.src = "demo"
  /\ loads' = Finished(loads, l)
  /\ loadingDemo' = FALSE
  /\ notice' = DemoFailedNotice
  /\ logged' = [fetch |-> "failed"]
  /\ UNCHANGED <<appState, project, isLocating, analyses, gens>>
  /\ UNCHANGED pvars
  /\ UNCHANGED rvars

\* reader.onloadend of handleFileUpload and handleDemoLoad, with the call of
\* startAnalysis up to its await
ReaderLoadEnd(l) ==
  /\ BagIn(l, loads)
  /\ loads' = Finished(loads, l)
  /\ project' = [project EXCEPT !.originalImage = [base64 |-> l.image]]
  /\ appState' = "ANALYZING"
  /\ analyses' = Started(analyses, [image |-> l.image])
  /\ loadingDemo' = IF l.src = "demo" THEN FALSE ELSE loadingDemo
  /\ notice' = NoNotice
  /\ logged' = NothingLogged
  /\ UNCHANGED <<isLocating, gens>>
  /\ PlanViewFollows
  /\ UNCHANGED rvars

\* startAnalysis after the await: analyzeSiteImage resolved
AnalysisResolves(a, suitability) ==
  /\ BagIn(a, analyses)
  /\ analyses' = Finished(analyses, a)
  /\ project' = [project EXCEPT !.analysis =
                   [image |-> a.image, suitability |-> suitability]]
  /\ appState' = "REVIEW_ANALYSIS"
  /\ notice' = NoNotice
  /\ UNCHANGED <<isLocating, loadingDemo, loads, gens>>
  /\ PlanViewFollows
  /\ UNCHANGED rvars

\* startAnalysis after the await: analyzeSiteImage rejected
AnalysisRejectsStays(a) ==
  /\ BagIn(a, analyses)
  /\ analyses' = Finished(analyses, a)
  /\ notice' = AnalysisFailedNotice
  /\ UNCHANGED <<appState, project, isLocating, loadingDemo, loads, gens>>
  /\ PlanViewFollows
  /\ UNCHANGED rvars
AnalysisRejects(a) ==
  /\ BagIn(a, analyses)
  /\ analyses' = Finished(analyses, a)
  /\ appState' = "IDLE"
  /\ notice' = AnalysisFailedNotice
  /\ UNCHANGED <<project, isLocating, loadingDemo, loads, gens>>
  /\ PlanViewFollows
  /\ UNCHANGED rvars

\* startAnalysis after the await, analyzeSiteImage having settled with
\* result; the catch writes the error with console.error
AnalysisSettles(a, result, suitability) ==
  /\ IF result.ok THEN AnalysisResolves(a, suitability) ELSE AnalysisRejects(a)
  /\ logged' = result.error

\* history kept with a type selection: plan and restoredImage as they were
\* when handleTypeSelection was called
Generated(p) == [plan |-> p.plan, restoredImage |-> p.restoredImage]

\* if (!project.originalImage || !project.analysis) return;
MissingInputNever(p) == FALSE
MissingInput(p) == p.originalImage = Null \/ p.analysis = Null

\* setAppState(AppState.GENERATING_VISION) of handleTypeSelection
Planning == "PLANNING"
Generating == "GENERATING_VISION"

\* a click on a restoration type of the AnalysisView, which App renders in
\* REVIEW_ANALYSIS when project.analysis is set: handleTypeSelection up to
\* its await
HandleTypeSelection(type, budget) ==
  /\ appState = "REVIEW_ANALYSIS"
  /\ project.analysis # Null
  /\ type \in DOMAIN project.analysis.suitability
  /\ IsViable(project.analysis.suitability[type])
  /\ CanStart
  /\ IF MissingInput(project)
     THEN UNCHANGED <<appState, project, gens>>
     ELSE /\ project' = [project EXCEPT !.selectedType = [type |-> type],
                                        !.budget = budget]
          /\ appState' = Generating
          /\ gens' = Started(gens, [type |-> type, budget |-> budget,
                                    vision |-> "pending", plan |-> "pending",
                                    before |-> Generated(project)])
  /\ notice' = NoNotice
  /\ logged' = NothingLogged
  /\ UNCHANGED <<isLocating, loadingDemo, loads, analyses>>
  /\ PlanViewFollows
  /\ UNCHANGED rvars

\* the image or the plan that the calls of g return
GeneratedByNothing(g) == Null
GeneratedBy(g) == [type |-> g.type, budget |-> g.budget]

\* setProject(prev => ({ ...prev, restoredImage, plan }))
WithPlanOnly(prev, g) == [prev EXCEPT !.plan = GeneratedBy(g)]
WithGenerated(prev, g) ==
  [prev EXCEPT !.restoredImage = GeneratedBy(g), !.plan = GeneratedBy(g)]

\* handleTypeSelection after await Promise.all(...): g has just become g2 by
\* the settling of one of its promises
AfterPromiseAll(g, g2) ==
  LET all == PromiseAll(g2.vision, g2.plan)
  IN  IF all = "pending"
      THEN /\ gens' = Started(Finished(gens, g), g2)
           /\ notice' = NoNotice
           /\ UNCHANGED <<appState, project>>
      ELSE /\ gens' = Finished(gens, g)
           /\ IF all = "fulfilled"
              THEN /\ project' = WithGenerated(project, g)
                   /\ appState' = "COMPLETE"
                   /\ notice' = NoNotice
              ELSE /\ appState' = "REVIEW_ANALYSIS"
                   /\ notice' = GenerationFailedNotice
                   /\ UNCHANGED project

\* generateVisionImage of g settles while handleTypeSelection awaits
VisionSettles(g, result) ==
  /\ BagIn(g, gens)
  /\ g.vision = "pending"
  /\ AfterPromiseAll(g, [g EXCEPT !.vision = result])
  /\ UNCHANGED <<isLocating, loadingDemo, loads, analyses>>
  /\ PlanViewFollows
  /\ UNCHANGED rvars

\* createExecutionPlan of g settles while handleTypeSelection awaits
PlanSettles(g, result) ==
  /\ BagIn(g, gens)
  /\ g.plan = "pending"
  /\ AfterPromiseAll(g, [g EXCEPT !.plan = result])
  /\ UNCHANGED <<isLocating, loadingDemo, loads, analyses>>
  /\ PlanViewFollows
  /\ UNCHANGED rvars

\* setProject({...}) of resetApp: a new object that keeps no field of the
\* old one
ResetProjectKeepsLocation(prev) ==
  [InitialProject EXCEPT !.location = prev.location]
ResetProject(prev) == InitialProject

\* the promise of a call that settled with result
PromiseOf(result) == IF result.ok THEN "fulfilled" ELSE "rejected"

\* handleTypeSelection after the await, generateVisionImage of g having
\* settled with result; the catch writes the error with console.error
VisionCallSettles(g, result) ==
  /\ VisionSettles(g, PromiseOf(result))
  /\ logged' = result.error

\* handleTypeSelection after the await, createExecutionPlan of g having
\* settled with result; the catch writes the error with console.error
PlanCallSettles(g, result) ==
  /\ PlanSettles(g, PromiseOf(result))
  /\ logged' = result.error

\* resetApp: the logo and the New Project button of the header
ResetApp ==
  /\ appState' = "IDLE"
  /\ project' = ResetProject(project)
  /\ notice' = NoNotice
  /\ logged' = NothingLogged
  /\ UNCHANGED <<isLocating, loadingDemo, loads, analyses, gens>>
  /\ PlanViewFollows
  /\ UNCHANGED rvars

\* handleLocationRequest: the location button of the landing view.  When
\* navigator.geolocation is missing (supported is false) it alerts and
\* returns, else it asks for the position.
HandleLocationRequest(supported) ==
  /\ appState = "IDLE"
  /\ project.location = Null
  /\ ~isLocating
  /\ IF ~supported
     THEN /\ notice' = UnsupportedNotice
          /\ UNCHANGED isLocating
     ELSE /\ isLocating' = TRUE
          /\ notice' = NoNotice
  /\ logged' = NothingLogged
  /\ UNCHANGED <<appState, project, loadingDemo, loads, analyses, gens>>
  /\ UNCHANGED pvars
  /\ UNCHANGED rvars

\* the success callback of getCurrentPosition
LocationFoundResets(position) ==
  /\ isLocating
  /\ project' = [InitialProject EXCEPT !.location = position]
  /\ appState' = "IDLE"
  /\ isLocating' = FALSE
  /\ notice' = NoNotice
  /\ logged' = NothingLogged
  /\ UNCHANGED <<loadingDemo, loads, analyses, gens>>
  /\ PlanViewFollows
  /\ UNCHANGED rvars
LocationFound(position) ==
  /\ isLocating
  /\ project' = [project EXCEPT !.location = position]
  /\ isLocating' = FALSE
  /\ notice' = NoNotice
  /\ logged' = NothingLogged
  /\ UNCHANGED <<appState, loadingDemo, loads, analyses, gens>>
  /\ UNCHANGED pvars
  /\ UNCHANGED rvars

\* the error callback of getCurrentPosition
LocationErrorResets(code) ==
  /\ isLocating
  /\ isLocating' = FALSE
  /\ notice' = LocationErrorMessage(code)
  /\ logged' = [code |-> code]
  /\ appState' = "IDLE"
  /\ project' = InitialProject
  /\ UNCHANGED <<loadingDemo, loads, analyses, gens>>
  /\ PlanViewFollows
  /\ UNCHANGED rvars
LocationError(code) ==
  /\ isLocating
  /\ isLocating' = FALSE
  /\ notice' = LocationErrorMessage(code)
  /\ logged' = [code |-> code]
  /\ UNCHANGED <<appState, project, loadingDemo, loads, analyses,
                 gens>>
  /\ UNCHANGED pvars
  /\ UNCHANGED rvars

\* PlanView: the button "Find ..." of a phase is shown while the phase has
\* no results, and is disabled while the phase loads or location is null
FindButtonEnabled(index) ==
  /\ phaseResults[index] = Undefined
  /\ ~(loadingPhases[index] \/ project.location = Null)

\* PlanView: "Refresh Search" is shown with the results of a phase
RefreshButtonShown(index) == phaseResults[index] # Undefined

\* prev => ({ ...prev, [index]: value }): the update of phaseResults and of
\* loadingPhases
OnlyPhase(prev, index, value) ==
  [j \in DOMAIN prev |-> IF j = index THEN value ELSE prev[index]]
WithPhase(prev, index, value) == [prev EXCEPT ![index] = value]

\* if (!location): the guard of handleSearchForPhase
LocationMissingNever(location) == FALSE
LocationMissing(location) == location = Null

\* PlanView.handleSearchForPhase up to its await.  It is called by a click on
\* one of the two buttons of a phase; a call without location, which the
\* disabled button prevents, is let through to the guard of the handler.
HandleSearchForPhase(index) ==
  /\ PlanViewRendered(appState, project)
  /\ \/ FindButtonEnabled(index)
     \/ RefreshButtonShown(index)
     \/ project.location = Null
  /\ IF LocationMissing(project.location)
     THEN /\ notice' = LocationRequiredNotice
          /\ logged' = NothingLogged
          /\ UNCHANGED pvars
     ELSE /\ CanStart
          /\ loadingPhases' = WithPhase(loadingPhases, index, TRUE)
          /\ lookups' = Started(lookups, [index |-> index,
                                          location |-> project.location])
          /\ notice' = NoNotice
          /\ logged' = NothingLogged
          /\ UNCHANGED phaseResults
  /\ UNCHANGED <<appState, project, isLocating, loadingDemo, loads, analyses, gens>>
  /\ UNCHANGED rvars

\* PlanView.handleSearchForPhase after the await: findLocalServices settled
\* with result
LookupSettles(l, result) ==
  /\ BagIn(l, lookups)
  /\ lookups' = Finished(lookups, l)
  /\ IF result.ok
     THEN /\ phaseResults' = WithPhase(phaseResults, l.index,
                                    [providers |-> result.data,
                                     category |-> l.index])
          /\ notice' = NoNotice
          /\ logged' = NothingLogged
     ELSE /\ notice' = LookupFailedNotice
          /\ logged' = result.error
          /\ UNCHANGED phaseResults
  /\ loadingPhases' = WithPhase(loadingPhases, l.index, FALSE)
  /\ UNCHANGED <<appState, project, isLocating, loadingDemo, loads, analyses, gens>>
  /\ UNCHANGED rvars

AppNext ==
  \/ \E file \in Files : HandleFileUpload(file)
  \/ HandleDemoLoad
  \/ \E l \in BagToSet(loads) : DemoFetchFails(l)
  \/ \E l \in BagToSet(loads) : ReaderLoadEnd(l)
  \/ \E a \in BagToSet(analyses), result \in AnalyzeSiteImageSettlements,
        s \in Suitabilities : AnalysisSettles(a, result, s)
  \/ \E t \in RestorationTypes, b \in BudgetsChosen : HandleTypeSelection(t, b)
  \/ \E g \in BagToSet(gens), result \in GenerateVisionImageSettlements :
       VisionCallSettles(g, result)
  \/ \E g \in BagToSet(gens), result \in CreateExecutionPlanSettlements :
       PlanCallSettles(g, result)
  \/ ResetApp
  \/ \E supported \in BOOLEAN : HandleLocationRequest(supported)
  \/ \E p \in Positions : LocationFound(p)
  \/ \E code \in LocationErrorCodes : LocationError(code)

Init == RetryInit /\ AppInit

\* the steps of the PlanView that App renders in COMPLETE
PlanViewNext ==
  \/ \E index \in PhaseIndexes : HandleSearchForPhase(index)
  \/ \E l \in BagToSet(lookups), result \in FindLocalServicesSettlements :
       LookupSettles(l, result)

\* the controller
Spec == Init /\ [][AppNext]_vars

\* a call of an API function that the controller awaits settles
CallSettles ==
  \/ \E a \in BagToSet(analyses), result \in AnalyzeSiteImageSettlements,
        s \in Suitabilities : AnalysisSettles(a, result, s)
  \/ \E g \in BagToSet(gens), result \in GenerateVisionImageSettlements :
       VisionCallSettles(g, result)
  \/ \E g \in BagToSet(gens), result \in CreateExecutionPlanSettlements :
       PlanCallSettles(g, result)

\* while calls are awaited, one of them settles in the end
CallsSettle == WF_vars(CallSettles)

\* the controller when every call it awaits settles
SpecFair == Spec /\ CallsSettle

\* the controller with the plan view
SpecPlanView == Init /\ [][AppNext \/ PlanViewNext]_vars

\* the request orchestrator
SpecRetry == Init /\ [][RetryNext]_vars

\* the request orchestrator when every invocation of the operation settles
\* and every timer fires
SpecRetryFair == SpecRetry /\ WF_vars(Attempt) /\ WF_vars(TimerFires)

(***************************************************************************)
(* Claims about the request orchestrator (checked under SpecRetry).        *)
(***************************************************************************)
\* invocation n failed with a transient error (status 429 or 503)
TransientFailure(n) ==
  /\ ~opLog[n].ok
  /\ opLog[n].error.status \in {TooManyRequests, ServiceUnavailable}

\* invocation n failed with an error that is not transient
PermanentFailure(n) ==
  /\ ~opLog[n].ok
  /\ opLog[n].error.status \notin {TooManyRequests, ServiceUnavailable}

EveryFailureTransient ==
  \A n \in 1..Len(opLog) : opLog[n].ok \/ TransientFailure(n)

\* C1: when every failure of the operation is transient, retryOperation
\* propagates an error only after exactly maxRetries attempts, every failed
\* attempt but the last is followed by one delay, and the delay after failed
\* attempt k is initialDelay * 2^(k-1).
C1_TransientBackoff ==
  EveryFailureTransient =>
    /\ rpc = "thrown" => Len(opLog) = maxRetries /\ Len(delays) = maxRetries - 1
    /\ rpc \in {"loop", "delay"} => Len(delays) = Len(opLog)
    /\ \A k \in 1..Len(delays) :
         TransientFailure(k) /\ delays[k] = initialDelay * Pow2(k - 1)

C1_Witness ==
  /\ rpc = "thrown"
  /\ EveryFailureTransient
  /\ maxRetries = DefaultMaxRetries
  /\ Len(opLog) = 3
  /\ delays = <<DefaultInitialDelay, 2 * DefaultInitialDelay>>

\* C2: an attempt that fails with a non-transient error is the last one: the
\* error is propagated at once, with no delay after it; when it is the first
\* attempt, exactly one attempt is made and no delay is waited at all.
C2_PermanentFailsFast ==
  \A n \in 1..Len(opLog) :
    PermanentFailure(n) =>
      /\ n = Len(opLog)
      /\ rpc = "thrown"
      /\ Len(delays) = n - 1
      /\ outcome = opLog[n].error

C2_Witness ==
  /\ rpc = "thrown"
  /\ Len(opLog) = 1
  /\ PermanentFailure(1)
  /\ opLog[1].error.status = 500
  /\ delays = <<>>

\* the fixed policy, on an operation that fails transiently three times in a
\* row and whose fourth invocation would succeed
ThreeTransientThenSuccess ==
  /\ RetryDone
  /\ maxRetries = DefaultMaxRetries
  /\ initialDelay = DefaultInitialDelay
  /\ Len(opLog) >= 3
  /\ \A n \in 1..3 : TransientFailure(n)
  /\ IF Len(opLog) >= 4 THEN opLog[4].ok ELSE nextExt = "ok"

\* C3 (as claimed): under the fixed policy such an operation is invoked
\* exactly 4 times and retryOperation returns the fourth invocation's result.
C3_FourthAttemptSucceeds ==
  ThreeTransientThenSuccess =>
    /\ Len(opLog) = 4
    /\ rpc = "returned"
    /\ outcome = opLog[4].value

\* C3 (amended): under the fixed policy such an operation is invoked exactly
\* 3 times; retryOperation waits 2000 ms and 4000 ms and then rejects with the
\* third attempt's error, and the fourth invocation is never made.
C3_ThirdAttemptIsLast ==
  ThreeTransientThenSuccess =>
    /\ Len(opLog) = 3
    /\ rpc = "thrown"
    /\ outcome = opLog[3].error
    /\ delays = <<DefaultInitialDelay, 2 * DefaultInitialDelay>>

C3_Witness ==
  /\ ThreeTransientThenSuccess
  /\ rpc = "thrown"
  /\ nextExt = "ok"

\* C4: whenever retryOperation fails, the error it propagates is the error
\* object thrown by the last attempt it made, not an earlier one, not a wrapper.
C4_LastErrorUnchanged ==
  rpc = "thrown" =>
    /\ Len(extLog) >= 1
    /\ outcome = ErrorOf(extLog[Len(extLog)], Len(extLog))

C4_Witness ==
  /\ rpc = "thrown"
  /\ Len(opLog) = maxRetries
  /\ Len(opLog) >= 2
  /\ opLog[1].error.status # outcome.status
  /\ ShouldRetry(outcome)

\* C5 (as claimed): for each of the four call kinds, a transient failure of
\* the external call on an attempt before the last is retried: another
\* attempt follows or is being waited for.
C5_EveryKindRetries ==
  \A n \in 1..Len(extLog) :
    (extLog[n] \in {"s429", "s503"} /\ n < maxRetries) =>
      (Len(extLog) > n \/ rpc \in {"delay", "loop"})

(***************************************************************************)
(* Claims about the application controller (checked under Spec).           *)
(***************************************************************************)
\* the call of generateVisionImage or of createExecutionPlan of g rejects
GenerationRejects(g) ==
  VisionSettles(g, "rejected") \/ PlanSettles(g, "rejected")

\* the second of the two calls of g resolves, the first having resolved
BothResolved(g) ==
  \/ g.plan = "fulfilled" /\ VisionSettles(g, "fulfilled")
  \/ g.vision = "fulfilled" /\ PlanSettles(g, "fulfilled")

\* C6: the application state becomes COMPLETE only in a step in which, for
\* one type selection, the second of its two calls (vision image, plan)
\* resolves successfully after the first has resolved successfully.
C6_CompleteOnlyAfterBoth ==
  [][(appState # "COMPLETE" /\ appState' = "COMPLETE") =>
       \E g \in BagToSet(gens) : BothResolved(g)]_vars

C6_Witness ==
  /\ appState = "COMPLETE"
  /\ project.plan # Null
  /\ project.restoredImage # Null
  /\ project.selectedType # Null
  /\ project.plan.type = project.selectedType.type

\* C7 (as claimed): when either call of a type selection rejects, the state
\* becomes REVIEW_ANALYSIS and plan and restoredImage have the values they
\* had when the selection was made.
C7_FailureKeepsPlanAndImage ==
  [][\A g \in BagToSet(gens) :
       GenerationRejects(g) =>
         /\ appState' = "REVIEW_ANALYSIS"
         /\ Generated(project') = g.before]_vars

\* C8 (as claimed): whenever an analysis fails, the resulting state is IDLE
\* with analysis = null, whatever uploads, resets and completions preceded.
C8_FailedAnalysisLeavesNull ==
  [][\A a \in BagToSet(analyses) :
       AnalysisRejects(a) =>
         /\ appState' = "IDLE"
         /\ project'.analysis = Null]_vars

\* an analysis or a generation settles
OperationSettles ==
  \/ \E a \in BagToSet(analyses) :
       AnalysisRejects(a) \/ \E s \in Suitabilities : AnalysisResolves(a, s)
  \/ \E g \in BagToSet(gens), r \in Settled :
       VisionSettles(g, r) \/ PlanSettles(g, r)

\* Only resetApp sets originalImage to null, and every analysis and every
\* generation starts with originalImage set: while originalImage is null,
\* every outstanding analysis or generation was in flight at a reset.
AfterReset == project.originalImage = Null

\* C9 (as claimed): the result of an analysis or generation that was in
\* flight at a reset, arriving after the reset, changes neither the
\* application state nor any field of ProjectState.
C9_StaleResultDropped ==
  [][(AfterReset /\ OperationSettles) =>
       (appState' = appState /\ project' = project)]_vars

\* C10 (as claimed): at most one top-level operation is outstanding, the two
\* calls of one type selection counting as one: never two analyses, never
\* two type selections, never an analysis together with a generation.
C10_OneOperationAtATime ==
  BagCardinality(analyses) + BagCardinality(gens) <= 1

\* C11 (as claimed): in every reachable state plan is non-null only if
\* analysis is non-null: a RestorationPlan never exists without a SiteAnalysis.
C11_PlanOnlyWithAnalysis ==
  project.plan # Null => project.analysis # Null

\* C12 (as claimed): whenever the state is COMPLETE, selectedType and budget
\* are the type and the budget that plan and restoredImage were generated
\* with.
C12_TypeAndBudgetFixed ==
  appState = "COMPLETE" =>
    /\ project.plan # Null
    /\ project.restoredImage # Null
    /\ project.selectedType = [type |-> project.plan.type]
    /\ project.selectedType = [type |-> project.restoredImage.type]
    /\ project.budget = project.plan.budget
    /\ project.budget = project.restoredImage.budget

\* the changes of the application state that the state machine allows
AllowedTransitions ==
  {<<"IDLE", "ANALYZING">>, <<"ANALYZING", "REVIEW_ANALYSIS">>,
   <<"REVIEW_ANALYSIS", "GENERATING_VISION">>,
   <<"GENERATING_VISION", "COMPLETE">>,
   <<"ANALYZING", "IDLE">>, <<"GENERATING_VISION", "REVIEW_ANALYSIS">>}

\* C13 (as claimed): every change of the application state is one of the
\* allowed transitions or a reset to IDLE.
C13_OnlyAllowedTransitions ==
  [][appState' # appState =>
       (<<appState, appState'>> \in AllowedTransitions \/ ResetApp)]_vars

\* C14: the happy path.  When the reader of an upload ends in IDLE the state
\* becomes ANALYZING with the image stored; when the analysis resolves in
\* ANALYZING the state becomes REVIEW_ANALYSIS with analysis set to the
\* result; a selection of a type and a budget in REVIEW_ANALYSIS (of the
\* uploaded image) moves the state to GENERATING_VISION with the selection
\* stored; and when the second of the two results of the selection resolves
\* in GENERATING_VISION the state becomes COMPLETE with plan and
\* restoredImage set to the results.
C14_HappyPath ==
  [][/\ \A l \in BagToSet(loads) :
          (appState = "IDLE" /\ ReaderLoadEnd(l)) =>
            /\ appState' = "ANALYZING"
            /\ project'.originalImage = [base64 |-> l.image]
     /\ \A a \in BagToSet(analyses), s \in Suitabilities :
          (appState = "ANALYZING" /\ AnalysisResolves(a, s)) =>
            /\ appState' = "REVIEW_ANALYSIS"
            /\ project'.analysis = [image |-> a.image, suitability |-> s]
     /\ \A t \in RestorationTypes, b \in BudgetsChosen :
          (/\ appState = "REVIEW_ANALYSIS"
           /\ project.originalImage # Null
           /\ HandleTypeSelection(t, b)) =>
            /\ appState' = "GENERATING_VISION"
            /\ project'.selectedType = [type |-> t]
            /\ project'.budget = b
     /\ \A g \in BagToSet(gens) :
          (appState = "GENERATING_VISION" /\ BothResolved(g)) =>
            /\ appState' = "COMPLETE"
            /\ project'.plan = [type |-> g.type, budget |-> g.budget]
            /\ project'.restoredImage = [type |-> g.type, budget |-> g.budget]
    ]_vars

C14_Witness ==
  /\ appState = "COMPLETE"
  /\ loads = EmptyBag /\ analyses = EmptyBag /\ gens = EmptyBag
  /\ project.originalImage # Null
  /\ project.analysis # Null
  /\ project.analysis.image = project.originalImage.base64
  /\ project.selectedType # Null
  /\ project.plan = [type |-> project.selectedType.type, budget |-> project.budget]
  /\ project.restoredImage = project.plan

\* C16: immediately after resetApp, from any state, the application state is
\* IDLE and every field of ProjectState has its initial value: originalImage,
\* restoredImage, analysis, selectedType, plan and location are null and
\* budget is MEDIUM.
C16_ResetReplacesProject ==
  [][ResetApp =>
       /\ appState' = "IDLE"
       /\ DOMAIN project' = {"originalImage", "restoredImage", "analysis",
                             "selectedType", "budget", "plan", "location"}
       /\ project'.originalImage = Null
       /\ project'.restoredImage = Null
       /\ project'.analysis = Null
       /\ project'.selectedType = Null
       /\ project'.plan = Null
       /\ project'.location = Null
       /\ project'.budget = "Standard (Professional Assist)"]_vars

\* a state that only a reset during a generation leaves: the selection is in
\* flight and nothing of the project it was made in remains
C16_Witness ==
  /\ appState = "IDLE"
  /\ gens # EmptyBag
  /\ project.originalImage = Null
  /\ project.analysis = Null
  /\ project.selectedType = Null
  /\ project.location = Null
  /\ project.budget = BudgetMedium

\* C17 (as claimed): between two resets, once analysis is non-null it never
\* changes value: no step other than resetApp changes an analysis that is
\* set.
C17_AnalysisWrittenOnce ==
  [][(project.analysis # Null /\ ~ResetApp) =>
       project'.analysis = project.analysis]_vars

\* a geolocation request fails: the browser does not support geolocation, or
\* the error callback of getCurrentPosition runs
GeolocationFails ==
  \/ HandleLocationRequest(FALSE)
  \/ \E code \in LocationErrorCodes : LocationError(code)

\* C18: a geolocation failure of any cause leaves the application state and
\* every field of ProjectState unchanged: it shows a message, clears
\* isLocating where a request was started, and changes nothing else.
C18_LocationFailureKeepsState ==
  [][GeolocationFails =>
       /\ appState' = appState
       /\ project' = project
       /\ notice' # NoNotice
       /\ isLocating' = FALSE
       /\ UNCHANGED <<loadingDemo, loads, analyses, gens>>]_vars

\* the request timed out after the plan was completed
C18_Witness ==
  /\ notice = LocationErrorMessage("TIMEOUT")
  /\ appState = "COMPLETE"
  /\ project.plan # Null
  /\ project.location = Null
  /\ ~isLocating

\* C15: a call of handleSearchForPhase for any phase index while location is
\* unknown issues no call of findLocalServices, leaves the loading flags and
\* the cached results unchanged and shows the location-required notice; and
\* every lookup that was issued carries a known location.
C15_LookupNeedsLocation ==
  /\ [][\A index \in PhaseIndexes :
          (project.location = Null /\ HandleSearchForPhase(index)) =>
            /\ lookups' = lookups
            /\ loadingPhases' = loadingPhases
            /\ phaseResults' = phaseResults
            /\ notice' = LocationRequiredNotice]_vars
  /\ [](\A l \in BagToSet(lookups) : l.location \in Positions)

\* the plan view after a call without location
C15_Witness ==
  /\ PlanViewRendered(appState, project)
  /\ project.location = Null
  /\ notice = LocationRequiredNotice
  /\ lookups = EmptyBag
  /\ phaseResults = NoResults
  /\ loadingPhases = NotLoading

\* the results of findLocalServices when the external call fails: the API
\* key is missing, the call fails with a status, the response has no text or
\* its text is not JSON
FailedLookupResults ==
  {ApiCall("findLocalServices", exts) :
     exts \in {e \in ExtSeqs("findLocalServices", DefaultMaxRetries) :
                 e[1] # "ok"}}

\* C19: when the lookup fails, findLocalServices resolves with an empty
\* provider list instead of rejecting, and the step of the plan view that
\* receives it stores the empty list for the phase, shows no failure notice
\* and leaves the state COMPLETE and the project, with its plan, unchanged.
C19_LookupFailureGivesEmptyList ==
  [][\A result \in FailedLookupResults :
       /\ result.ok
       /\ result.value.data = "no providers"
       /\ \A l \in BagToSet(lookups) :
            LookupSettles(l, Settlement(result)) =>
              /\ appState = "COMPLETE"
              /\ appState' = "COMPLETE"
              /\ project' = project
              /\ project'.plan # Null
              /\ phaseResults'[l.index].providers = "no providers"
              /\ notice' = NoNotice]_vars

\* the plan view shows an empty result for a phase
C19_Witness ==
  /\ appState = "COMPLETE"
  /\ project.plan # Null
  /\ \E index \in PhaseIndexes :
       /\ phaseResults[index] # Undefined
       /\ phaseResults[index].providers = "no providers"
       /\ ~loadingPhases[index]

\* the first answer of exts that is not a transient failure is an empty
\* payload (no response text, no inline image data), at invocation n
MeetsEmptyPayloadAt(exts, n) ==
  /\ exts[n] = "empty"
  /\ \A j \in 1 .. (n - 1) : exts[j] \in {"s429", "s503"}

\* the calls of analyzeSiteImage, generateVisionImage and createExecutionPlan
\* that meet an empty payload, with the invocation that meets it and the
\* result of the call
EmptyPayloadCalls ==
  UNION {{[kind |-> k, attempt |-> n, result |-> ApiCall(k, exts)] :
            exts \in {e \in ExtSeqs(k, DefaultMaxRetries) :
                        MeetsEmptyPayloadAt(e, n)}} :
           k \in CallKinds \ {"findLocalServices"},
           n \in 1 .. DefaultMaxRetries}

\* what the controller receives of the calls of kind k that meet an empty
\* payload
EmptyPayloadSettlements(k) ==
  {Settlement(c.result) : c \in {d \in EmptyPayloadCalls : d.kind = k}}
EmptyAnalyses == EmptyPayloadSettlements("analyzeSiteImage")
EmptyVisions == EmptyPayloadSettlements("generateVisionImage")
EmptyPlans == EmptyPayloadSettlements("createExecutionPlan")

\* the attempt that meets an empty payload is the last one, whatever the
\* service would answer next: the call rejects with the error of that attempt
EmptyPayloadRejects ==
  \A c \in EmptyPayloadCalls :
    /\ ~c.result.ok
    /\ c.result.error.cause = "empty"
    /\ c.result.error.attempt = c.attempt

\* C20: an empty payload is a permanent error.  The attempt that meets it is
\* the last one, whatever the service would answer next: the call rejects
\* with the error of that attempt, so a call that meets it at once is
\* attempted exactly once; and the step of the controller that receives the
\* rejection sets the state to IDLE for an analysis and to REVIEW_ANALYSIS
\* for a generation.
C20_EmptyPayloadIsPermanent ==
  [][/\ EmptyPayloadRejects
     /\ \A result \in EmptyAnalyses :
          \A a \in BagToSet(analyses), s \in Suitabilities :
            AnalysisSettles(a, result, s) => appState' = "IDLE"
     /\ \A result \in EmptyVisions :
          \A g \in BagToSet(gens) :
            VisionCallSettles(g, result) => appState' = "REVIEW_ANALYSIS"
     /\ \A result \in EmptyPlans :
          \A g \in BagToSet(gens) :
            PlanCallSettles(g, result) => appState' = "REVIEW_ANALYSIS"]_vars

\* the analysis of the uploaded image failed for an empty payload
C20_Witness ==
  /\ appState = "IDLE"
  /\ logged = [cause |-> "empty", status |-> NoStatus]
  /\ notice = AnalysisFailedNotice
  /\ project.originalImage # Null
  /\ project.analysis = Null
  /\ analyses = EmptyBag

\* C22: in every reachable state in which the application state is COMPLETE,
\* plan and restoredImage are both non-null.
C22_CompleteHasPlanAndImage ==
  appState = "COMPLETE" => (project.plan # Null /\ project.restoredImage # Null)

\* COMPLETE reached by the results of a generation that was in flight at a
\* reset: plan and restoredImage are set although nothing else is
C22_Witness ==
  /\ appState = "COMPLETE"
  /\ project.originalImage = Null
  /\ project.analysis = Null
  /\ project.plan # Null
  /\ project.restoredImage # Null
  /\ gens = EmptyBag

\* C23 (as claimed): in every reachable state in which the application state
\* is REVIEW_ANALYSIS, analysis and originalImage are both non-null, also
\* after a reset that overlaps an operation in flight.
C23_ReviewHasAnalysisAndImage ==
  appState = "REVIEW_ANALYSIS" =>
    (project.analysis # Null /\ project.originalImage # Null)

\* C24: the generated image and the plan are committed together.  In every
\* reachable state restoredImage is null exactly when plan is null, and when
\* both are set they are the results of the calls of one type selection.
C24_ImageAndPlanTogether ==
  /\ project.restoredImage = Null <=> project.plan = Null
  /\ project.plan # Null =>
       /\ project.restoredImage.type = project.plan.type
       /\ project.restoredImage.budget = project.plan.budget

\* image and plan of one selection are shown while a selection of another
\* type is still in flight
C24_Witness ==
  /\ project.plan # Null
  /\ project.restoredImage # Null
  /\ \E g \in BagToSet(gens) : g.type # project.plan.type

\* C25: the declared state PLANNING is never entered.  In every reachable
\* state the application state is one of IDLE, ANALYZING, REVIEW_ANALYSIS,
\* GENERATING_VISION and COMPLETE.
C25_PlanningNeverEntered ==
  /\ appState # "PLANNING"
  /\ appState \in {"IDLE", "ANALYZING", "REVIEW_ANALYSIS", "GENERATING_VISION",
                   "COMPLETE"}

\* the image of a selection has been generated and its plan has not: the
\* state is still GENERATING_VISION
C25_Witness ==
  /\ appState = "GENERATING_VISION"
  /\ \E g \in BagToSet(gens) : g.vision = "fulfilled" /\ g.plan = "pending"

\* C27: handleTypeSelection called while originalImage or analysis is null
\* does nothing: the application state, selectedType and budget are
\* unchanged, and no call of generateVisionImage or createExecutionPlan
\* starts.
C27_SelectionWithoutInputIsNoOp ==
  [][\A t \in RestorationTypes, b \in BudgetsChosen :
       (/\ project.originalImage = Null \/ project.analysis = Null
        /\ HandleTypeSelection(t, b)) =>
         /\ appState' = appState
         /\ project'.selectedType = project.selectedType
         /\ project'.budget = project.budget
         /\ project' = project
         /\ gens' = gens]_vars

\* the analysis view is shown without an image, after the analysis that was
\* in flight at a reset arrived, and a type can be clicked
C27_Witness ==
  /\ appState = "REVIEW_ANALYSIS"
  /\ project.originalImage = Null
  /\ project.analysis # Null
  /\ project.budget # "Low Cost (DIY & Seeds)"
  /\ ENABLED (\E t \in RestorationTypes, b \in BudgetsChosen :
                HandleTypeSelection(t, b))

\* C28: a successful geolocation response changes only location and clears
\* isLocating: the application state, every other field of ProjectState and
\* the operations in flight are unchanged, in whatever state it arrives.
C28_LocationFoundChangesOnlyLocation ==
  [][\A position \in Positions :
       LocationFound(position) =>
         /\ project' = [project EXCEPT !.location = position]
         /\ ~isLocating'
         /\ appState' = appState
         /\ UNCHANGED <<loadingDemo, loads, analyses, gens>>]_vars

\* the position arrived while an analysis was running
C28_Witness ==
  /\ appState = "ANALYZING"
  /\ project.location \in Positions
  /\ project.originalImage # Null
  /\ ~isLocating
  /\ analyses # EmptyBag

\* the score of the selected type in the current analysis
SelectedScore(p) == p.analysis.suitability[p.selectedType.type]

\* C30: generation is only started for a viable restoration type.  Every
\* call of handleTypeSelection is for a type whose score in the current
\* analysis is above 30, and the state is never GENERATING_VISION with a
\* selected type whose score is 30 or less.
C30_OnlyViableTypeGenerated ==
  /\ [][\A t \in RestorationTypes, b \in BudgetsChosen :
          HandleTypeSelection(t, b) =>
            /\ project.analysis # Null
            /\ t \in DOMAIN project.analysis.suitability
            /\ project.analysis.suitability[t] > 30]_vars
  /\ [](appState = "GENERATING_VISION" =>
          /\ project.analysis # Null
          /\ project.selectedType # Null
          /\ SelectedScore(project) > 30)

\* a type is being generated while another type of the same analysis is
\* scored 30, which is not viable
C30_Witness ==
  /\ appState = "GENERATING_VISION"
  /\ project.selectedType = [type |-> "Pollinator Haven"]
  /\ project.analysis # Null
  /\ project.analysis.suitability["Urban Food Forest"] = 30
  /\ gens # EmptyBag

(***************************************************************************)
(* Termination of the request orchestrator (checked under SpecRetryFair).  *)
(***************************************************************************)
\* the call in progress has invoked the operation n times
Invocations == Len(opLog)

\* C26: retryOperation terminates whenever every invocation of the operation
\* settles.  It invokes the operation at most maxRetries times and waits at
\* most maxRetries - 1 delays, one after each attempt but the final one; and
\* when it returns, it returns the value of its last invocation, every
\* earlier invocation having failed, so that a success of attempt k is
\* returned after exactly k invocations.
C26_RetryTerminates ==
  /\ [](/\ Invocations <= maxRetries
        /\ Len(delays) <= maxRetries - 1
        /\ rpc = "delay" => (Len(delays) = Invocations /\ Invocations < maxRetries)
        /\ RetryDone => Len(delays) = Invocations - 1
        /\ rpc = "returned" =>
             /\ Invocations \in 1 .. maxRetries
             /\ opLog[Invocations].ok
             /\ outcome = opLog[Invocations].value
             /\ outcome.attempt = Invocations
             /\ \A n \in 1 .. (Invocations - 1) : ~opLog[n].ok)
  /\ (rpc \in {"loop", "delay"}) ~> RetryDone

\* the last of MaxRetriesArg attempts succeeded, after a delay before each
\* of the others
C26_Witness ==
  /\ rpc = "returned"
  /\ maxRetries = MaxRetriesArg
  /\ Invocations = MaxRetriesArg
  /\ Len(delays) = MaxRetriesArg - 1
  /\ outcome.attempt = MaxRetriesArg

(***************************************************************************)
(* Claims about the plan view (checked under SpecPlanView).                *)
(***************************************************************************)
\* the loading flags and the results of the phases other than index are
\* unchanged
OtherPhasesUnchanged(index) ==
  \A j \in PhaseIndexes \ {index} :
    /\ loadingPhases'[j] = loadingPhases[j]
    /\ phaseResults'[j] = phaseResults[j]

\* C29: a lookup for phase i changes only the loading flag and the cached
\* result of phase i.  Its start sets the flag of i; when it settles the
\* flag of i is false; and neither step changes the flag or the result of
\* another phase, the application state or the project, so lookups of
\* different phases that run at the same time keep each other's results.
\* (A lookup starts or settles exactly in steps that change the bag of
\* awaited lookups.)
C29_LookupTouchesOnlyItsPhase ==
  [][lookups' # lookups =>
       /\ \A index \in PhaseIndexes :
            (project.location # Null /\ HandleSearchForPhase(index)) =>
              /\ loadingPhases'[index]
              /\ phaseResults' = phaseResults
              /\ OtherPhasesUnchanged(index)
              /\ UNCHANGED <<appState, project>>
       /\ \A l \in BagToSet(lookups), result \in FindLocalServicesSettlements :
            LookupSettles(l, result) =>
              /\ ~loadingPhases'[l.index]
              /\ phaseResults'[l.index] # Undefined
              /\ OtherPhasesUnchanged(l.index)
              /\ UNCHANGED <<appState, project>>]_vars

\* the lookup of one phase has settled with providers while the lookup of
\* another phase is in flight, and the empty result of that other phase from
\* an earlier lookup is still shown
C29_Witness ==
  \E done, busy \in PhaseIndexes :
    /\ done # busy
    /\ phaseResults[done] # Undefined
    /\ phaseResults[done].providers = "payload"
    /\ ~loadingPhases[done]
    /\ loadingPhases[busy]
    /\ phaseResults[busy] # Undefined
    /\ phaseResults[busy].providers = "no providers"
    /\ \E l \in BagToSet(lookups) : l.index = busy

(***************************************************************************)
(* Progress of the controller (checked under SpecFair).                    *)
(***************************************************************************)
\* the user waits for a result
Loading == appState \in {"ANALYZING", "GENERATING_VISION"}

\* the user can act
Interactive == appState \in {"IDLE", "REVIEW_ANALYSIS", "COMPLETE"}

\* C21: every failure path returns the user to an interactive state.  When
\* every call that the controller awaits settles, the system never stays in
\* a loading state forever: every state is ANALYZING or GENERATING_VISION or
\* else IDLE, REVIEW_ANALYSIS or COMPLETE, and a state of the second kind
\* always comes again, so that each state ANALYZING or GENERATING_VISION is
\* followed by a state IDLE, REVIEW_ANALYSIS or COMPLETE.
C21_LoadingLeadsToInteractive ==
  /\ [](Loading \/ Interactive)
  /\ []<>Interactive

\* a generation failed after its retries were used up, and the analysis view
\* is shown again
C21_Witness ==
  /\ appState = "REVIEW_ANALYSIS"
  /\ notice = GenerationFailedNotice
  /\ logged = [cause |-> "s503", status |-> ServiceUnavailable]
  /\ project.originalImage # Null
  /\ project.analysis # Null
  /\ gens = EmptyBag

====
